---------------------------- MODULE Spec2Model ----------------------------
(***************************************************************************)
(* The road-accident dashboard script app.py as a state machine.          *)
(*                                                                         *)
(* One run of the script is one behaviour: the table returned by          *)
(* load_data() is cleaned, feature-engineered, filtered by the sidebar     *)
(* widgets and aggregated, unless st.stop() or an uncaught exception ends  *)
(* the run first.                                                          *)
(*                                                                         *)
(* A DataFrame is a sequence of column names plus a sequence of rows; a    *)
(* row is the tuple of its cells by column position.  Column names and raw *)
(* CSV cells of the numeric columns are sequences of characters, so that   *)
(* str.strip, str.lower and the numeric parse are computed, not assumed.   *)
(* State/UT cells are non-empty strings.  Parsed numbers are naturals;     *)
(* floats that arise from division are exact rationals with NaN and inf.   *)
(***************************************************************************)
EXTENDS Integers, Sequences, FiniteSets, TLC

VARIABLES
    cache,        \* what st.cache_data holds for load_data(): the file as read
    pc,           \* position of the run in the script
    fill_method,  \* default fill_method of pct_change in the installed pandas
    columns,      \* df.columns
    df,           \* the rows of df
    year_range,   \* value of the year slider
    states,       \* value of the State/UT multiselect
    risk_filter,  \* value of the risk-category multiselect
    filtered_df,  \* the rows of filtered_df
    kpis,         \* the four st.metric values
    trend_df,     \* yearly trend table
    state_acc,    \* state ranking table
    heatmap_df,   \* rate matrix
    peak_year,    \* insight: year of the most accidents
    top_state,    \* insight: state with the most accidents
    message,      \* st.error / st.warning text shown, "" when none
    exception     \* uncaught exception that ended the run, "" when none

vars ==
    <<cache, pc, fill_method, columns, df, year_range, states, risk_filter,
      filtered_df, kpis, trend_df, state_acc, heatmap_df, peak_year,
      top_state, message, exception>>

---------------------------------------------------------------------------
(* Bounds of the checked instances.                                        *)

\* most rows of a raw table in the general, year-over-year, cleaning and
\* header families
MaxRows == 2

\* most rows of a raw table in the risk-bucket family
MaxRiskRows == 3

\* number of states in the one-row-per-state tables of the ranking family
NumWideStates == 11

---------------------------------------------------------------------------
(* Column names.                                                           *)

\* "State/UT"
StateUT ==
    <<"S", "t", "a", "t", "e", "/", "U", "T">>

\* "Year"
Year ==
    <<"Y", "e", "a", "r">>

\* "Number of Registered Vehicles"
NumberOfRegisteredVehicles ==
    <<"N", "u", "m", "b", "e", "r", " ", "o", "f", " ", "R", "e", "g", "i",
      "s", "t", "e", "r", "e", "d", " ", "V", "e", "h", "i", "c", "l", "e",
      "s">>

\* "Number of Road Accidents"
NumberOfRoadAccidents ==
    <<"N", "u", "m", "b", "e", "r", " ", "o", "f", " ", "R", "o", "a", "d",
      " ", "A", "c", "c", "i", "d", "e", "n", "t", "s">>

\* "Accident per 1,000 vehicles"
AccidentPer1000Vehicles ==
    <<"A", "c", "c", "i", "d", "e", "n", "t", " ", "p", "e", "r", " ", "1",
      ",", "0", "0", "0", " ", "v", "e", "h", "i", "c", "l", "e", "s">>

\* "Fatality"
Fatality ==
    <<"F", "a", "t", "a", "l", "i", "t", "y">>

\* "Fatalities per Accident"
FatalitiesPerAccident ==
    <<"F", "a", "t", "a", "l", "i", "t", "i", "e", "s", " ", "p", "e", "r",
      " ", "A", "c", "c", "i", "d", "e", "n", "t">>

\* "Accidents per Million Vehicles"
AccidentsPerMillionVehicles ==
    <<"A", "c", "c", "i", "d", "e", "n", "t", "s", " ", "p", "e", "r", " ",
      "M", "i", "l", "l", "i", "o", "n", " ", "V", "e", "h", "i", "c", "l",
      "e", "s">>

\* "YoY Accident Change (%)"
YoYAccidentChange ==
    <<"Y", "o", "Y", " ", "A", "c", "c", "i", "d", "e", "n", "t", " ", "C",
      "h", "a", "n", "g", "e", " ", "(", "%", ")">>

\* "Risk Category"
RiskCategory ==
    <<"R", "i", "s", "k", " ", "C", "a", "t", "e", "g", "o", "r", "y">>

\* "COVID Period"
COVIDPeriod ==
    <<"C", "O", "V", "I", "D", " ", "P", "e", "r", "i", "o", "d">>

\* numeric_cols of the script
numeric_cols ==
    <<NumberOfRegisteredVehicles, NumberOfRoadAccidents,
      AccidentPer1000Vehicles, Fatality>>

\* the header of a well-formed source file
CanonicalHeader ==
    <<StateUT, Year, NumberOfRegisteredVehicles, NumberOfRoadAccidents,
      AccidentPer1000Vehicles, Fatality>>

---------------------------------------------------------------------------
(* Strings: str.strip and str.lower on sequences of characters.            *)

UpperToLower ==
    "A" :> "a" @@ "B" :> "b" @@ "C" :> "c" @@ "D" :> "d" @@ "E" :> "e" @@
    "F" :> "f" @@ "G" :> "g" @@ "H" :> "h" @@ "I" :> "i" @@ "J" :> "j" @@
    "K" :> "k" @@ "L" :> "l" @@ "M" :> "m" @@ "N" :> "n" @@ "O" :> "o" @@
    "P" :> "p" @@ "Q" :> "q" @@ "R" :> "r" @@ "S" :> "s" @@ "T" :> "t" @@
    "U" :> "u" @@ "V" :> "v" @@ "W" :> "w" @@ "X" :> "x" @@ "Y" :> "y" @@
    "Z" :> "z"

\* str.lower
Lower(s) ==
    [i \in 1..Len(s) |->
        IF s[i] \in DOMAIN UpperToLower THEN UpperToLower[s[i]] ELSE s[i]]

RECURSIVE LStrip(_)
LStrip(s) ==
    IF s # <<>> /\ Head(s) = " " THEN LStrip(Tail(s)) ELSE s

RECURSIVE RStrip(_)
RStrip(s) ==
    IF s # <<>> /\ s[Len(s)] = " " THEN RStrip(SubSeq(s, 1, Len(s) - 1)) ELSE s

\* str.strip
Strip(s) ==
    RStrip(LStrip(s))

---------------------------------------------------------------------------
(* Numbers.                                                                *)

\* the missing value of a numeric column (NaN); parsed numbers are >= 0
NaN ==
    0 - 1

DigitVal ==
    "0" :> 0 @@ "1" :> 1 @@ "2" :> 2 @@ "3" :> 3 @@ "4" :> 4 @@
    "5" :> 5 @@ "6" :> 6 @@ "7" :> 7 @@ "8" :> 8 @@ "9" :> 9

RECURSIVE Decimal(_)
Decimal(cell) ==
    IF cell = <<>> THEN 0
    ELSE Decimal(SubSeq(cell, 1, Len(cell) - 1)) * 10 + DigitVal[cell[Len(cell)]]

\* pd.to_numeric(errors="coerce") of the text of one CSV cell: an empty cell
\* and a cell that is no number become NaN
to_numeric(cell) ==
    IF cell # <<>> /\ \A i \in 1..Len(cell) : cell[i] \in DOMAIN DigitVal
    THEN Decimal(cell)
    ELSE NaN

\* a float: NaN, +inf, or the rational n/d in lowest terms with d > 0
FNaN ==
    [k |-> "nan", n |-> 0, d |-> 0]

FInf ==
    [k |-> "inf", n |-> 0, d |-> 0]

RECURSIVE GCD(_, _)
GCD(a, b) ==
    IF b = 0 THEN a ELSE GCD(b, a % b)

Abs(x) ==
    IF x < 0 THEN 0 - x ELSE x

Frac(n, d) ==
    LET g == GCD(Abs(n), d)
    IN  [k |-> "num", n |-> n \div g, d |-> d \div g]

\* a / b of two numeric columns
Div(a, b) ==
    IF a = NaN \/ b = NaN THEN FNaN
    ELSE IF b = 0 THEN (IF a = 0 THEN FNaN ELSE FInf)
    ELSE Frac(a, b)

\* x * c for a float x and a positive integer c
Times(x, c) ==
    IF x.k = "num" THEN Frac(x.n * c, x.d) ELSE x

\* x - 1 for a float x
MinusOne(x) ==
    IF x.k = "num" THEN Frac(x.n - x.d, x.d) ELSE x

---------------------------------------------------------------------------
(* DataFrame access by column name.                                        *)

Count(cols, name) ==
    Cardinality({i \in 1..Len(cols) : cols[i] = name})

ColPos(cols, name) ==
    CHOOSE i \in 1..Len(cols) :
        cols[i] = name /\ \A j \in 1..(i - 1) : cols[j] # name

\* the cell of `row` in column `name`
Col(cols, row, name) ==
    row[ColPos(cols, name)]

\* the distinct values of a column
Unique(cols, rows, name) ==
    {Col(cols, rows[i], name) : i \in 1..Len(rows)}

Max(S) ==
    CHOOSE x \in S : \A y \in S : y <= x

Min(S) ==
    CHOOSE x \in S : \A y \in S : x <= y

\* State/UT names in the order Python compares strings
StateOrder ==
    <<"Assam", "Bihar", "Delhi", "Goa", "Gujarat", "Haryana", "Kerala",
      "Manipur", "Odisha", "Punjab", "Sikkim", "Tripura", "Uttar Pradesh">>

StateRank(s) ==
    CHOOSE i \in 1..Len(StateOrder) : StateOrder[i] = s

---------------------------------------------------------------------------
(* DATA CLEANING                                                           *)

\* df.columns = df.columns.str.strip()
StripColumns(cols) ==
    [i \in 1..Len(cols) |-> Strip(cols[i])]

\* the loop that renames a column to "Year": it runs over the columns as they
\* were before the loop and has no break
EnsureYear(cols) ==
    IF \E i \in 1..Len(cols) : cols[i] = Year
    THEN cols
    ELSE [i \in 1..Len(cols) |->
            IF Lower(cols[i]) = <<"y", "e", "a", "r">> THEN Year ELSE cols[i]]

\* the exceptions a run can end with
KeyError ==
    "KeyError: column not found"

TypeError ==
    "TypeError: arg must be a list, tuple, 1-d array, or Series"

IntOfNaN ==
    "ValueError: cannot convert float NaN to integer"

ArgmaxOfEmpty ==
    "ValueError: attempt to get argmax of an empty sequence"

IndexerOutOfBounds ==
    "IndexError: single positional indexer is out-of-bounds"

InvalidMarkerSize ==
    "ValueError: invalid element(s) received for the 'size' property"

\* df[name] = pd.to_numeric(df[name], errors="coerce")
CoerceColumn(cols, rows, name) ==
    [i \in 1..Len(rows) |->
        [j \in 1..Len(rows[i]) |->
            IF j = ColPos(cols, name) THEN to_numeric(rows[i][j])
            ELSE rows[i][j]]]

\* the conversions of Year and of numeric_cols in script order; df[name]
\* raises KeyError when no column has the name, and pd.to_numeric raises
\* TypeError when several have it (df[name] is then a DataFrame)
RECURSIVE CoerceColumns(_, _, _)
CoerceColumns(cols, rows, names) ==
    IF names = <<>> THEN [rows |-> rows, exception |-> ""]
    ELSE IF Count(cols, Head(names)) = 0
    THEN [rows |-> rows, exception |-> KeyError]
    ELSE IF Count(cols, Head(names)) > 1
    THEN [rows |-> rows, exception |-> TypeError]
    ELSE CoerceColumns(cols, CoerceColumn(cols, rows, Head(names)), Tail(names))

\* df.dropna(subset=["Year"])
DropNaYear(cols, rows) ==
    SelectSeq(rows, LAMBDA r : Col(cols, r, Year) # NaN)

FatalMessage ==
    "Dataset is empty after cleaning. Please check the CSV file."

\* CleanedPc without the check for an empty table
CleanedPcUnchecked(rows) ==
    "cleaned"

\* if df.empty: st.error(...); st.stop()
CleanedPc(rows) ==
    IF rows = <<>> THEN "stopped" ELSE "cleaned"

\* Lines 34-65.  Year holds whole numbers after to_numeric, which astype(int)
\* leaves as they are.
Clean ==
    /\ pc = "loaded"
    /\ LET cols == EnsureYear(StripColumns(columns))
           co   == CoerceColumns(cols, df, <<Year>> \o numeric_cols)
           kept == DropNaYear(cols, co.rows)
       IN  /\ columns' = cols
           /\ IF co.exception # ""
              THEN /\ df' = co.rows
                   /\ pc' = "crashed"
                   /\ exception' = co.exception
                   /\ message' = message
              ELSE /\ df' = kept
                   /\ pc' = CleanedPc(kept)
                   /\ exception' = exception
                   /\ message' = IF CleanedPc(kept) = "stopped"
                                 THEN FatalMessage ELSE message
    /\ UNCHANGED <<cache, fill_method, year_range, states, risk_filter, filtered_df,
                   kpis, trend_df, state_acc, heatmap_df, peak_year,
                   top_state>>

---------------------------------------------------------------------------
(* FEATURE ENGINEERING                                                     *)

\* row a sorts before row b by ["State/UT", "Year"]
RowLess(cols, a, b) ==
    \/ StateRank(Col(cols, a, StateUT)) < StateRank(Col(cols, b, StateUT))
    \/ /\ Col(cols, a, StateUT) = Col(cols, b, StateUT)
       /\ Col(cols, a, Year) < Col(cols, b, Year)

\* df.sort_values(["State/UT", "Year"]): a sort on several columns is a
\* stable lexsort, so rows with equal keys keep their order
sort_values(cols, rows) ==
    LET pos(i) == 1 + Cardinality({j \in 1..Len(rows) :
                        \/ RowLess(cols, rows[j], rows[i])
                        \/ /\ ~RowLess(cols, rows[i], rows[j])
                           /\ j < i})
    IN  [p \in 1..Len(rows) |-> rows[CHOOSE i \in 1..Len(rows) : pos(i) = p]]

\* the row before row i in its State/UT group, 0 when i is the group's first
GroupPrev(cols, rows, i) ==
    LET before == {j \in 1..(i - 1) :
                      Col(cols, rows[j], StateUT) = Col(cols, rows[i], StateUT)}
    IN  IF before = {} THEN 0 ELSE Max(before)

\* the group's column after the fill pct_change applies first: with "ffill"
\* a missing value takes the last value present before it in the group
Filled(cols, rows, i, fm) ==
    LET s    == Col(cols, rows[i], StateUT)
        have == {j \in 1..i : /\ Col(cols, rows[j], StateUT) = s
                              /\ Col(cols, rows[j], NumberOfRoadAccidents) # NaN}
    IN  IF fm = "ffill"
        THEN IF have = {} THEN NaN
             ELSE Col(cols, rows[Max(have)], NumberOfRoadAccidents)
        ELSE Col(cols, rows[i], NumberOfRoadAccidents)

\* df.groupby("State/UT")["Number of Road Accidents"].pct_change() at row i:
\* filled / filled.shift(1) - 1 within the group
pct_change(cols, rows, i, fm) ==
    LET p == GroupPrev(cols, rows, i)
    IN  IF p = 0 THEN FNaN
        ELSE MinusOne(Div(Filled(cols, rows, i, fm), Filled(cols, rows, p, fm)))

\* risk_category with >= in place of >
risk_category_inclusive(rate) ==
    IF rate # NaN /\ rate >= 5 THEN "High Risk"
    ELSE IF rate # NaN /\ rate >= 2 THEN "Medium Risk"
    ELSE "Low Risk"

risk_category(rate) ==
    IF rate # NaN /\ rate > 5 THEN "High Risk"
    ELSE IF rate # NaN /\ rate > 2 THEN "Medium Risk"
    ELSE "Low Risk"

\* lambda x: "COVID" if x in [2020, 2021] else "Non-COVID"
covid_period(x) ==
    IF x \in {2020, 2021} THEN "COVID" ELSE "Non-COVID"

\* the five derived columns
FeatureColumns ==
    <<FatalitiesPerAccident, AccidentsPerMillionVehicles, YoYAccidentChange,
      RiskCategory, COVIDPeriod>>

\* the rows of df after lines 70-97
Engineered(cols, rows, fm) ==
    LET ratios == [i \in 1..Len(rows) |->
                    rows[i] \o
                    << Div(Col(cols, rows[i], Fatality),
                           Col(cols, rows[i], NumberOfRoadAccidents)),
                       Times(Div(Col(cols, rows[i], NumberOfRoadAccidents),
                                 Col(cols, rows[i], NumberOfRegisteredVehicles)),
                             1000000) >>]
        sorted == sort_values(cols, ratios)
    IN  [i \in 1..Len(sorted) |->
            sorted[i] \o
            << Times(pct_change(cols, sorted, i, fm), 100),
               risk_category(Col(cols, sorted[i], AccidentPer1000Vehicles)),
               covid_period(Col(cols, sorted[i], Year)) >>]

\* Lines 70-97.
FeatureEngineer ==
    /\ pc = "cleaned"
    /\ df' = Engineered(columns, df, fill_method)
    /\ columns' = columns \o FeatureColumns
    /\ pc' = "engineered"
    /\ UNCHANGED <<cache, fill_method, year_range, states, risk_filter, filtered_df,
                   kpis, trend_df, state_acc, heatmap_df, peak_year,
                   top_state, message, exception>>

---------------------------------------------------------------------------
(* SIDEBAR FILTERS                                                         *)

\* between with the upper end left out
between_exclusive(x, lo, hi) ==
    lo <= x /\ x < hi

\* Series.between(lo, hi): inclusive at both ends
between(x, lo, hi) ==
    lo <= x /\ x <= hi

\* FilterRows that passes over the first row of the table
FilterRowsSkipFirst(cols, rows, yr, st, rf) ==
    SelectSeq(IF rows = <<>> THEN rows ELSE Tail(rows), LAMBDA r :
        /\ yr[1] <= Col(cols, r, Year) /\ Col(cols, r, Year) <= yr[2]
        /\ Col(cols, r, StateUT) \in st
        /\ Col(cols, r, RiskCategory) \in rf)

\* the rows kept by the three-part mask of filtered_df
FilterRows(cols, rows, yr, st, rf) ==
    SelectSeq(rows, LAMBDA r :
        /\ between(Col(cols, r, Year), yr[1], yr[2])
        /\ Col(cols, r, StateUT) \in st
        /\ Col(cols, r, RiskCategory) \in rf)

NoDataMessage ==
    "No data available for selected filters."

\* FilteredPc without the check for an empty table
FilteredPcUnchecked(rows) ==
    "filtered"

\* if filtered_df.empty: st.warning(...); st.stop()
FilteredPc(rows) ==
    IF rows = <<>> THEN "stopped" ELSE "filtered"

\* Lines 104-134.  The slider yields a pair within [year_min, year_max],
\* each multiselect a subset of its options.  int() of the minimum of an
\* empty column raises ValueError.
Filter ==
    /\ pc = "engineered"
    /\ IF df = <<>>
       THEN /\ pc' = "crashed"
            /\ exception' = IntOfNaN
            /\ UNCHANGED <<year_range, states, risk_filter, filtered_df, message>>
       ELSE LET year_min == Min(Unique(columns, df, Year))
                year_max == Max(Unique(columns, df, Year))
            IN  \E lo \in year_min..year_max, hi \in year_min..year_max,
                   st \in SUBSET Unique(columns, df, StateUT),
                   rf \in SUBSET Unique(columns, df, RiskCategory) :
                    /\ lo <= hi
                    /\ year_range' = <<lo, hi>>
                    /\ states' = st
                    /\ risk_filter' = rf
                    /\ filtered_df' = FilterRows(columns, df, <<lo, hi>>, st, rf)
                    /\ pc' = FilteredPc(filtered_df')
                    /\ message' = IF FilteredPc(filtered_df') = "stopped"
                                  THEN NoDataMessage ELSE message
                    /\ exception' = exception
    /\ UNCHANGED <<cache, fill_method, columns, df, kpis, trend_df, state_acc,
                   heatmap_df, peak_year, top_state>>

---------------------------------------------------------------------------
(* KPI METRICS, CHART TABLES, INSIGHTS                                     *)

\* the values of a column, in row order
ColValues(cols, rows, name) ==
    [i \in 1..Len(rows) |-> Col(cols, rows[i], name)]

\* Series.sum(): missing values are skipped, an empty sum is 0
RECURSIVE NanSum(_)
NanSum(vals) ==
    IF vals = <<>> THEN 0
    ELSE (IF Head(vals) = NaN THEN 0 ELSE Head(vals)) + NanSum(Tail(vals))

\* Series.mean(): missing values are skipped
NanMean(vals) ==
    LET present == SelectSeq(vals, LAMBDA v : v # NaN)
    IN  IF present = <<>> THEN FNaN ELSE Frac(NanSum(present), Len(present))

\* round(x, 2): to the nearest hundredth, a tie to the even one
Round2(x) ==
    IF x.k # "num" THEN x
    ELSE LET q == (x.n * 100) \div x.d
             r == (x.n * 100) % x.d
             h == IF 2 * r < x.d THEN q
                  ELSE IF 2 * r > x.d THEN q + 1
                  ELSE IF q % 2 = 0 THEN q ELSE q + 1
         IN  Frac(h, 100)

Kpis(cols, rows) ==
    [ vehicles   |-> NanSum(ColValues(cols, rows, NumberOfRegisteredVehicles)),
      accidents  |-> NanSum(ColValues(cols, rows, NumberOfRoadAccidents)),
      fatalities |-> NanSum(ColValues(cols, rows, Fatality)),
      avg_rate   |-> Round2(NanMean(ColValues(cols, rows, AccidentPer1000Vehicles))) ]

\* the rows of one group
Group(cols, rows, key, k) ==
    SelectSeq(rows, LAMBDA r : Col(cols, r, key) = k)

\* the elements of a set of integers in ascending order
Ascending(S) ==
    [p \in 1..Cardinality(S) |->
        CHOOSE x \in S : Cardinality({y \in S : y < x}) = p - 1]

\* filtered_df.groupby("Year", as_index=False).agg(sum, sum): one row
\* <<Year, accidents, fatalities>> per year, years ascending
TrendDf(cols, rows) ==
    LET years == Ascending(Unique(cols, rows, Year))
    IN  [p \in 1..Len(years) |->
            << years[p],
               NanSum(ColValues(cols, Group(cols, rows, Year, years[p]),
                                NumberOfRoadAccidents)),
               NanSum(ColValues(cols, Group(cols, rows, Year, years[p]),
                                Fatality)) >>]

\* filtered_df.groupby("State/UT", as_index=False)[accidents].sum(): the set
\* of rows <<State/UT, accidents>>
StateSums(cols, rows) ==
    { << s, NanSum(ColValues(cols, Group(cols, rows, StateUT, s),
                             NumberOfRoadAccidents)) >> :
        s \in Unique(cols, rows, StateUT) }

\* DescendingOrders with the sort left at its default, ascending
RECURSIVE AscendingOrders(_)
AscendingOrders(G) ==
    IF G = {} THEN {<<>>}
    ELSE UNION { { <<g>> \o rest : rest \in AscendingOrders(G \ {g}) } :
                 g \in {x \in G : \A y \in G : x[2] <= y[2]} }

\* sort_values(by=accidents, ascending=False): a sort on one column is a
\* quicksort, which may leave rows with equal sums in any order
RECURSIVE DescendingOrders(_)
DescendingOrders(G) ==
    IF G = {} THEN {<<>>}
    ELSE UNION { { <<g>> \o rest : rest \in DescendingOrders(G \ {g}) } :
                 g \in {x \in G : \A y \in G : y[2] <= x[2]} }

\* the n of head(n) in the state ranking
TopN ==
    10

\* DataFrame.head(n)
head(rows, n) ==
    SubSeq(rows, 1, IF Len(rows) < n THEN Len(rows) ELSE n)

\* pivot_table(index="State/UT", columns="Year", values=rate): the mean rate
\* per (state, year); groups with no rate are dropped, and a cell of the
\* remaining grid with no group is NaN
HeatmapDf(cols, rows) ==
    LET mean(s, y) ==
            NanMean(ColValues(cols,
                Group(cols, Group(cols, rows, StateUT, s), Year, y),
                AccidentPer1000Vehicles))
        cells == { c \in Unique(cols, rows, StateUT) \X Unique(cols, rows, Year) :
                     mean(c[1], c[2]).k = "num" }
    IN  [ c \in {x[1] : x \in cells} \X {x[2] : x \in cells} |->
            IF c \in cells THEN mean(c[1], c[2]) ELSE FNaN ]

\* trend_df.loc[trend_df[accidents].idxmax(), "Year"]: the year of the first
\* row that holds the largest sum
PeakYear(trend) ==
    LET best == Max({trend[i][2] : i \in 1..Len(trend)})
        at   == Min({i \in 1..Len(trend) : trend[i][2] = best})
    IN  trend[at][1]

\* Lines 139-261.  px.scatter sizes the markers by Fatality and may reject a
\* missing size with ValueError, depending on the plotly installed; idxmax of
\* an empty column raises ValueError, iloc[0] of an empty table IndexError.
Aggregate ==
    /\ pc = "filtered"
    /\ kpis' = Kpis(columns, filtered_df)
    /\ trend_df' = TrendDf(columns, filtered_df)
    /\ \E ranked \in DescendingOrders(StateSums(columns, filtered_df)) :
          state_acc' = head(ranked, TopN)
    /\ \E scatter_raises \in
            IF NaN \in Unique(columns, filtered_df, Fatality)
            THEN BOOLEAN ELSE {FALSE} :
          IF scatter_raises
          THEN /\ pc' = "crashed"
               /\ exception' = InvalidMarkerSize
               /\ UNCHANGED <<heatmap_df, peak_year, top_state>>
          ELSE /\ heatmap_df' = HeatmapDf(columns, filtered_df)
               /\ IF trend_df' = <<>>
                  THEN /\ pc' = "crashed"
                       /\ exception' = ArgmaxOfEmpty
                       /\ UNCHANGED <<peak_year, top_state>>
                  ELSE IF state_acc' = <<>>
                  THEN /\ pc' = "crashed"
                       /\ exception' = IndexerOutOfBounds
                       /\ peak_year' = PeakYear(trend_df')
                       /\ UNCHANGED top_state
                  ELSE /\ pc' = "done"
                       /\ exception' = exception
                       /\ peak_year' = PeakYear(trend_df')
                       /\ top_state' = state_acc'[1][1]
    /\ UNCHANGED <<cache, fill_method, columns, df, year_range, states, risk_filter,
                   filtered_df, message>>

---------------------------------------------------------------------------
(* LOAD DATA: the source files of the checked instances.                   *)

DigitChar ==
    <<"0", "1", "2", "3", "4", "5", "6", "7", "8", "9">>

\* the text of a CSV cell that holds the natural number n
RECURSIVE Text(_)
Text(n) ==
    IF n < 10 THEN <<DigitChar[n + 1]>>
    ELSE Text(n \div 10) \o <<DigitChar[(n % 10) + 1]>>

\* an empty cell, and a cell that is no number
Blank ==
    <<>>

Junk ==
    <<"n", "/", "a">>

\* pct_change fills forward by default before pandas 3 and not at all since
FillMethods ==
    {"ffill", "none"}

\* all tables of at most n rows over a set of rows
TablesOf(rowset, n) ==
    UNION {[1..k -> rowset] : k \in 0..n}

\* the state after df = load_data() for a source file with the given header
\* and rows
Loaded(header, rows) ==
    /\ cache = [columns |-> header, rows |-> rows]
    /\ pc = "loaded"
    /\ fill_method \in FillMethods
    /\ columns = header
    /\ df = rows
    /\ year_range = <<0, 0>>
    /\ states = {}
    /\ risk_filter = {}
    /\ filtered_df = <<>>
    /\ kpis = [vehicles |-> 0, accidents |-> 0, fatalities |-> 0, avg_rate |-> FNaN]
    /\ trend_df = <<>>
    /\ state_acc = <<>>
    /\ heatmap_df = <<>>
    /\ peak_year = 0
    /\ top_state = ""
    /\ message = ""
    /\ exception = ""

\* general family: two states, two years, two risk buckets
GeneralRows ==
    { <<s, Text(y), Text(1000), Text(50), Text(r), Text(5)>> :
        s \in {"Assam", "Delhi"}, y \in {2019, 2020}, r \in {5, 6} }

Init ==
    \E rows \in TablesOf(GeneralRows, MaxRows) : Loaded(CanonicalHeader, rows)

\* year-over-year family: two states, two years, accident counts that are
\* present, zero or missing
YoYRows ==
    { <<s, Text(y), Text(1000), a, Text(5), Text(5)>> :
        s \in {"Assam", "Delhi"}, y \in {2019, 2020},
        a \in {Text(50), Text(30), Text(0), Blank} }

InitYoY ==
    \E rows \in TablesOf(YoYRows, MaxRows) : Loaded(CanonicalHeader, rows)

\* risk-bucket family: rates on and around the thresholds, or missing
RiskRows ==
    { <<"Delhi", Text(2019), Text(1000), Text(50), r, Text(5)>> :
        r \in {Text(1), Text(2), Text(3), Text(5), Text(6), Blank} }

InitRisk ==
    \E rows \in TablesOf(RiskRows, MaxRiskRows) : Loaded(CanonicalHeader, rows)

\* cleaning family: a year that is present, missing or no number, and at
\* most one other numeric cell that is missing or no number
CleanRows ==
    { <<"Delhi", y>> \o rest :
        y \in {Text(2019), Blank, Junk},
        rest \in { <<Text(1000), Text(50), Text(5), Text(5)>>,
                   <<Blank, Text(50), Text(5), Text(5)>>,
                   <<Text(1000), Junk, Text(5), Text(5)>>,
                   <<Text(1000), Text(50), Blank, Text(5)>>,
                   <<Text(1000), Text(50), Text(5), Junk>> } }

InitClean ==
    \E rows \in TablesOf(CleanRows, MaxRows) : Loaded(CanonicalHeader, rows)

\* header family: spellings of the year column, alone or with a second
\* year-like column at the end
YearSpellings ==
    { <<"Y", "e", "a", "r">>, <<" ", "Y", "e", "a", "r", " ">>,
      <<"y", "e", "a", "r">>, <<"Y", "E", "A", "R">>, <<"Y", "r">> }

ExtraSpellings ==
    { <<"y", "e", "a", "r">>, <<"Y", "E", "A", "R", " ">>, <<"Y", "e", "a", "r">> }

HeaderRows ==
    { <<s, y, Text(1000), Text(50), Text(5), Text(5)>> :
        s \in {"Assam", "Delhi"}, y \in {Text(2019), Blank} }

InitHeader ==
    \E y \in YearSpellings, rows \in TablesOf(HeaderRows, MaxRows) :
        \/ Loaded([CanonicalHeader EXCEPT ![2] = y], rows)
        \/ \E x \in ExtraSpellings :
              Loaded([CanonicalHeader EXCEPT ![2] = y] \o <<x>>,
                     [i \in 1..Len(rows) |-> rows[i] \o <<Text(2020)>>])

\* ranking family: more states than the ranking keeps, one row per state
\* in 2019 with counts that all differ, and a second row of the first state
\* in 2020 that lifts its sum to the second state's
WideTable ==
    [i \in 1..(NumWideStates + 1) |->
        IF i <= NumWideStates
        THEN <<StateOrder[i], Text(2019), Text(1000),
               Text(IF i = 1 THEN 9 ELSE 10 + i), Text(5), Text(5)>>
        ELSE <<StateOrder[1], Text(2020), Text(1000), Text(3), Text(5), Text(5)>>]

InitRank ==
    Loaded(CanonicalHeader, WideTable)

Next ==
    \/ Clean
    \/ FeatureEngineer
    \/ Filter
    \/ Aggregate

Spec ==
    Init /\ [][Next]_vars

SpecYoY ==
    InitYoY /\ [][Next]_vars

SpecRisk ==
    InitRisk /\ [][Next]_vars

SpecClean ==
    InitClean /\ [][Next]_vars

SpecHeader ==
    InitHeader /\ [][Next]_vars

SpecRank ==
    InitRank /\ [][Next]_vars

---------------------------------------------------------------------------
(* Properties.                                                             *)

\* the run has passed feature engineering
HasFeatures ==
    Count(columns, RiskCategory) = 1

\* the run has passed cleaning without st.stop() or an exception
Cleaned ==
    pc \in {"cleaned", "engineered", "filtered", "done"}
    \/ (pc = "stopped" /\ message = NoDataMessage)

\* the run has built filtered_df
Filtered ==
    pc \in {"filtered", "done"} \/ (pc = "stopped" /\ message = NoDataMessage)

\* the outputs of the aggregation stage are as they were at load
NothingAggregated ==
    /\ kpis = [vehicles |-> 0, accidents |-> 0, fatalities |-> 0, avg_rate |-> FNaN]
    /\ trend_df = <<>>
    /\ state_acc = <<>>
    /\ heatmap_df = <<>>
    /\ peak_year = 0
    /\ top_state = ""

\* the outputs of the filter stage are as they were at load
NothingFiltered ==
    /\ year_range = <<0, 0>>
    /\ states = {}
    /\ risk_filter = {}
    /\ filtered_df = <<>>

\* C1: every row that survives cleaning has a risk category, one of the
\* three labels, fixed by the row's rate alone: High Risk when rate > 5,
\* Medium Risk when 2 < rate <= 5, Low Risk when rate <= 2.
C1_RiskBuckets ==
    HasFeatures =>
        \A i \in 1..Len(df) :
            LET rate == Col(columns, df[i], AccidentPer1000Vehicles)
                risk == Col(columns, df[i], RiskCategory)
            IN  /\ risk \in {"High Risk", "Medium Risk", "Low Risk"}
                /\ (rate # NaN /\ rate > 5) => risk = "High Risk"
                /\ (rate # NaN /\ 2 < rate /\ rate <= 5) => risk = "Medium Risk"
                /\ (rate # NaN /\ rate <= 2) => risk = "Low Risk"
                /\ \A j \in 1..Len(df) :
                      Col(columns, df[j], AccidentPer1000Vehicles) = rate
                      => Col(columns, df[j], RiskCategory) = risk

\* C1 witness: a table with rates 2, 5 and 6 has been bucketed
C1_Witness ==
    /\ pc = "engineered"
    /\ \E i, j, k \in 1..Len(df) :
          /\ Col(columns, df[i], AccidentPer1000Vehicles) = 2
          /\ Col(columns, df[i], RiskCategory) = "Low Risk"
          /\ Col(columns, df[j], AccidentPer1000Vehicles) = 5
          /\ Col(columns, df[j], RiskCategory) = "Medium Risk"
          /\ Col(columns, df[k], AccidentPer1000Vehicles) = 6
          /\ Col(columns, df[k], RiskCategory) = "High Risk"

\* (curr - prev) / prev * 100 as the claim words it
PercentChange(curr, prev) ==
    IF curr = NaN \/ prev = NaN THEN FNaN
    ELSE IF prev = 0 THEN (IF curr = prev THEN FNaN ELSE FInf)
    ELSE Frac((curr - prev) * 100, prev)

\* C2: after feature engineering the row with a state's smallest year has
\* no year-over-year change, and every other row has (curr - prev) / prev *
\* 100 against the row just before it, which is of the same state.
C2_YoYChange ==
    HasFeatures =>
        \A i \in 1..Len(df) :
            LET s     == Col(columns, df[i], StateUT)
                years == {Col(columns, df[j], Year) :
                            j \in {j \in 1..Len(df) : Col(columns, df[j], StateUT) = s}}
                yoy   == Col(columns, df[i], YoYAccidentChange)
            IN  IF Col(columns, df[i], Year) = Min(years)
                THEN yoy = FNaN
                ELSE /\ i > 1
                     /\ Col(columns, df[i - 1], StateUT) = s
                     /\ yoy = PercentChange(
                                 Col(columns, df[i], NumberOfRoadAccidents),
                                 Col(columns, df[i - 1], NumberOfRoadAccidents))

\* the predicates of the filter hold of a row
Selected(r) ==
    /\ year_range[1] <= Col(columns, r, Year)
    /\ Col(columns, r, Year) <= year_range[2]
    /\ Col(columns, r, StateUT) \in states
    /\ Col(columns, r, RiskCategory) \in risk_filter

\* how often a row occurs in a table
Occurrences(rows, r) ==
    Cardinality({i \in 1..Len(rows) : rows[i] = r})

\* C3: the filtered table holds exactly the rows of the engineered table
\* whose year lies in the closed interval and whose state and risk category
\* are selected, each as often as the engineered table holds it, unchanged.
C3_FilterExact ==
    Filtered =>
        /\ \A i \in 1..Len(filtered_df) : Selected(filtered_df[i])
        /\ \A i \in 1..Len(df) :
              Occurrences(filtered_df, df[i]) =
                  IF Selected(df[i]) THEN Occurrences(df, df[i]) ELSE 0
        /\ \A i \in 1..Len(filtered_df) : Occurrences(df, filtered_df[i]) > 0

\* C3 witness: over a proper interval a filter kept a row at the upper end
\* and dropped a row for its state
C3_Witness ==
    /\ pc = "filtered"
    /\ year_range[1] < year_range[2]
    /\ \E i \in 1..Len(filtered_df) :
          Col(columns, filtered_df[i], Year) = year_range[2]
    /\ \E i \in 1..Len(df) :
          /\ Col(columns, df[i], StateUT) \notin states
          /\ Occurrences(filtered_df, df[i]) = 0

\* C4: a filter that selects no row shows the no-data warning and stops the
\* run; no KPI, trend, ranking, matrix or insight is computed from an empty
\* table, and no maximum or first element of an empty table is taken.
C4_EmptyFilterStops ==
    /\ pc \in {"filtered", "done"} => filtered_df # <<>>
    /\ pc = "done" => (trend_df # <<>> /\ state_acc # <<>>)
    /\ exception \notin {IntOfNaN, ArgmaxOfEmpty, IndexerOutOfBounds}
    /\ (pc = "stopped" /\ HasFeatures) =>
          /\ message = NoDataMessage
          /\ filtered_df = <<>>
          /\ NothingAggregated

\* C4 witness: a run over a non-empty table stopped on an empty state selection
C4_Witness ==
    /\ pc = "stopped"
    /\ message = NoDataMessage
    /\ df # <<>>
    /\ states = {}
    /\ risk_filter # {}

\* the year cell of a row of the file is missing or is no number
BadYear(r) ==
    LET cell == r[ColPos(EnsureYear(StripColumns(cache.columns)), Year)]
    IN  cell = <<>> \/ \E i \in 1..Len(cell) : cell[i] \notin DOMAIN DigitVal

\* C5: when the file has no rows, or no row with a year that is a number,
\* the run shows the fatal message and halts with nothing engineered,
\* filtered or aggregated.
C5_FatalStops ==
    (/\ pc # "loaded"
     /\ exception = ""
     /\ \A i \in 1..Len(cache.rows) : BadYear(cache.rows[i]))
    => /\ pc = "stopped"
       /\ message = FatalMessage
       /\ df = <<>>
       /\ ~HasFeatures
       /\ NothingFiltered
       /\ NothingAggregated

\* C5 witness: a file whose only rows lack a usable year ended in the fatal stop
C5_Witness ==
    /\ pc = "stopped"
    /\ message = FatalMessage
    /\ Len(cache.rows) = 2
    /\ cache.rows[1][2] = Blank
    /\ cache.rows[2][2] = Junk

\* C6: once cleaning has finished, no row has a missing year, vehicle count,
\* accident count, accident rate or fatality count.
C6_NoMissingFields ==
    Cleaned =>
        \A i \in 1..Len(df) :
            \A name \in {Year, NumberOfRegisteredVehicles, NumberOfRoadAccidents,
                         AccidentPer1000Vehicles, Fatality} :
                Col(columns, df[i], name) # NaN

\* no two rows of a table share state and year
UniqueKeys(rows) ==
    \A i, j \in 1..Len(rows) :
        (/\ Col(columns, rows[i], StateUT) = Col(columns, rows[j], StateUT)
         /\ Col(columns, rows[i], Year) = Col(columns, rows[j], Year))
        => i = j

\* C7: for any file, the cleaned table and the tables derived from it hold
\* one row per (state, year) pair.
C7_OneRowPerStateYear ==
    Cleaned => (UniqueKeys(df) /\ UniqueKeys(filtered_df))

\* the sum of a state's accident counts over the filtered table
AccidentsOf(s) ==
    LET idx == {i \in 1..Len(filtered_df) : Col(columns, filtered_df[i], StateUT) = s}
        f[S \in SUBSET idx] ==
            IF S = {} THEN 0
            ELSE LET i == CHOOSE i \in S : TRUE
                     v == Col(columns, filtered_df[i], NumberOfRoadAccidents)
                 IN  (IF v = NaN THEN 0 ELSE v) + f[S \ {i}]
    IN  f[idx]

\* C8: the state ranking of a non-empty filtered table has one row per
\* state with the sum of the state's accidents, in descending order of the
\* sum, at most 10 rows; a state left out has a sum no greater than any kept.
C8_TopStates ==
    pc = "done" =>
        LET present == Unique(columns, filtered_df, StateUT)
            kept    == {state_acc[i][1] : i \in 1..Len(state_acc)}
        IN  /\ Len(state_acc) <= 10
            /\ Len(state_acc) = IF Cardinality(present) < 10
                                THEN Cardinality(present) ELSE 10
            /\ Cardinality(kept) = Len(state_acc)
            /\ kept \subseteq present
            /\ \A i \in 1..Len(state_acc) :
                  state_acc[i][2] = AccidentsOf(state_acc[i][1])
            /\ \A i \in 1..Len(state_acc), j \in 1..Len(state_acc) :
                  i < j => state_acc[i][2] >= state_acc[j][2]
            /\ \A s \in present \ kept : \A t \in kept :
                  AccidentsOf(s) <= AccidentsOf(t)

\* C8 witness: more than ten states were ranked, the one left out ties with
\* the last one kept, and a kept sum adds up several rows
C8_Witness ==
    /\ pc = "done"
    /\ Cardinality(Unique(columns, filtered_df, StateUT)) > 10
    /\ Len(state_acc) = 10
    /\ \E s \in Unique(columns, filtered_df, StateUT) :
          /\ \A i \in 1..Len(state_acc) : state_acc[i][1] # s
          /\ AccidentsOf(s) = state_acc[10][2]
    /\ \E k \in 1..Len(state_acc), i \in 1..Len(filtered_df) :
          /\ Col(columns, filtered_df[i], StateUT) = state_acc[k][1]
          /\ Col(columns, filtered_df[i], NumberOfRoadAccidents) < state_acc[k][2]

\* C9: filtering the filtered table again with the same year interval,
\* states and risk categories gives the filtered table back.
C9_FilterIdempotent ==
    Filtered =>
        FilterRows(columns, filtered_df, year_range, states, risk_filter)
            = filtered_df

\* C9 witness: a filter kept some rows and dropped others
C9_Witness ==
    /\ pc = "filtered"
    /\ Len(filtered_df) > 0
    /\ Len(filtered_df) < Len(df)

\* the column names the claim expects after year-column resolution
ResolvedColumns(cols) ==
    LET stripped == StripColumns(cols)
        matches  == {i \in 1..Len(stripped) : Lower(stripped[i]) = Lower(Year)}
    IN  IF (\E i \in 1..Len(stripped) : stripped[i] = Year) \/ matches = {}
        THEN stripped
        ELSE [stripped EXCEPT ![Min(matches)] = Year]

\* C10: after trimming, no column is renamed when one is named "Year";
\* otherwise only the first column that is "year" in any case is renamed,
\* so that at most one column is named "Year" by the rename.
C10_YearColumnResolved ==
    pc # "loaded" =>
        SubSeq(columns, 1, Len(cache.columns)) = ResolvedColumns(cache.columns)

===========================================================================
